---- MODULE Spec2Model ----
(***************************************************************************)
(* Podcast browsing front end: the season navigator (SeasonScroller), the  *)
(* genre resolver of the show card (PodcastCard) and the detail loader     *)
(* (Modalseries), each as a state machine translated from its component.   *)
(*                                                                         *)
(* JavaScript indices are kept 0-based as in the source; a TLA+ sequence   *)
(* is 1-based, so element i of an array is seq[i + 1].                     *)
(***************************************************************************)
EXTENDS Integers, Sequences, FiniteSets

VARIABLES
    \* ---- SeasonScroller ----
    seasons,             \* props.seasons: the array of season objects
    onSeasonSelect,      \* whether props.onSeasonSelect was provided
    selectedSeason,      \* useState(""): the selected season number, a string
    currentSeasonIndex,  \* useState(0): 0-based index into seasons
    view,                \* what the last render of the component returned
    lastOp,              \* the handler that ran last, and its argument
    calls,               \* onSeasonSelect invocations made by that handler
    scrolls,             \* element ids scrollToSeason looked up in that handler
    scrolled,            \* elements that handler called scrollIntoView on
    anchors,             \* the ids of the elements of the document
    nextRun,             \* next() calls made in a row since mount/reset, or -1
    \* ---- PodcastCard ----
    podcastGenres,       \* props.podcast.genres: the genre ids of the preview
    genres,              \* props.genres: the lookup table, [id, title] objects
    isModalOpen,         \* useState(false)
    genreSpans,          \* the text of the genre tags of the last render
    \* ---- Modalseries ----
    seriesId,            \* props.seriesId; 0 stands for a falsy identifier
    seriesData,          \* useState(null): <<>> is null, <<d>> the payload d
    loading,             \* useState(false)
    error,               \* useState(null): <<>> is null, <<m>> the message m
    inFlight,            \* the fetchSeriesData calls waiting for their response
    issued,              \* the number of fetches issued so far
    lastEvent,           \* the step of the loader that ran last
    uncaught,            \* an exception left fetchSeriesData
    latestOutcome,       \* how the most recently started fetch has ended
    \* ---- the page Modalseries and SeasonScroller render for seriesData ----
    sections,            \* the season sections of Modalseries
    options              \* the season options of the dropdown

navVars == <<seasons, onSeasonSelect, selectedSeason, currentSeasonIndex,
             view, lastOp, calls, scrolls, scrolled, anchors, nextRun>>

cardVars == <<podcastGenres, genres, isModalOpen, genreSpans>>

loaderVars == <<seriesId, seriesData, loading, error, inFlight, issued,
                lastEvent, uncaught, latestOutcome>>

pageVars == <<sections, options>>

vars == <<navVars, cardVars, loaderVars, pageVars>>

(***************************************************************************)
(* Bounds of the model.                                                    *)
(***************************************************************************)
MaxSeasons == 3

\* Season numbers the payloads of the navigator carry.
SeasonNumbers == {1, 2, 3}

(***************************************************************************)
(* Number.prototype.toString() / template-literal conversion of a          *)
(* non-negative integer: its decimal digits.                               *)
(***************************************************************************)
Digit(d) ==
    CASE d = 0 -> "0" [] d = 1 -> "1" [] d = 2 -> "2" [] d = 3 -> "3"
      [] d = 4 -> "4" [] d = 5 -> "5" [] d = 6 -> "6" [] d = 7 -> "7"
      [] d = 8 -> "8" [] d = 9 -> "9"

RECURSIVE ToString(_)
ToString(n) ==
    IF n < 10 THEN Digit(n) ELSE ToString(n \div 10) \o Digit(n % 10)

(***************************************************************************)
(* Season objects.  The season field is optional: a season is either       *)
(* [title] or [season, title].                                             *)
(***************************************************************************)
Season ==
    {[title |-> "T"]} \cup {[season |-> n, title |-> "T"] : n \in SeasonNumbers}

SeasonLists == UNION {[1..n -> Season] : n \in 0..MaxSeasons}

\* season.season is truthy: the field is there and is not 0.
HasSeasonNumber(season) ==
    /\ "season" \in DOMAIN season
    /\ season.season # 0

\* season.season || index + 1
SeasonNumber(season, index) ==
    IF HasSeasonNumber(season) THEN season.season ELSE index + 1

\* The display number of the season at 0-based position index.
DisplayNumber(list, index) == SeasonNumber(list[index + 1], index)

\* A value handed to the callback: JavaScript type and string form.
NumberValue(n) == [type |-> "number", text |-> ToString(n)]
StringValue(s) == [type |-> "string", text |-> s]

\* `season-${seasonNumber}`: the id scrollToSeason looks up.
SeasonElementId(text) == "season-" \o text

\* The documents the component can be mounted in: the page of Modalseries,
\* whose season sections carry no id, and a page with an element for some
\* display numbers and none for the others.
AnchorSets == {{}, {SeasonElementId("1"), SeasonElementId("3")}}

\* scrollToSeason without the check of the element it looked up.
scrollToSeason_NoCheck(seasonNumber) ==
    /\ scrolls' = <<SeasonElementId(seasonNumber)>>
    /\ scrolled' = scrolls'

\* scrollToSeason(seasonNumber): getElementById, then scrollIntoView if the
\* element exists.
scrollToSeason(seasonNumber) ==
    /\ scrolls' = <<SeasonElementId(seasonNumber)>>
    /\ scrolled' = IF SeasonElementId(seasonNumber) \in anchors
                   THEN scrolls'
                   ELSE <<>>

\* if (onSeasonSelect) onSeasonSelect(value)
Invoke(value) == IF onSeasonSelect THEN <<value>> ELSE <<>>

(***************************************************************************)
(* Render: what the component returns for the given props and state.      *)
(* With no seasons it returns null: visible is FALSE and the other fields *)
(* stand for nothing.                                                      *)
(***************************************************************************)
isFirstSeason(index) == index = 0

\* isLastSeason compared with the length instead of the last index.
isLastSeason_OffByOne(list, index) == index = Len(list)

isLastSeason(list, index) == index = Len(list) - 1

\* value={season.season || index + 1}, read back as event.target.value
OptionValue(list, index) == ToString(DisplayNumber(list, index))

\* key={season.season || index}
OptionKey(list, index) ==
    IF HasSeasonNumber(list[index + 1]) THEN list[index + 1].season ELSE index

Render(list, index, label) ==
    IF Len(list) = 0
    THEN [visible |-> FALSE, prevDisabled |-> FALSE, nextDisabled |-> FALSE]
    ELSE [visible |-> TRUE,
          prevDisabled |-> isFirstSeason(index),
          nextDisabled |-> isLastSeason(list, index)]

(***************************************************************************)
(* The state after the component is mounted.                               *)
(***************************************************************************)
NavInit ==
    /\ seasons \in SeasonLists
    /\ onSeasonSelect \in BOOLEAN
    /\ anchors \in AnchorSets
    /\ selectedSeason = ""
    /\ currentSeasonIndex = 0
    /\ view = Render(seasons, 0, "")
    /\ lastOp = [op |-> "mount", value |-> ""]
    /\ calls = <<>>
    /\ scrolls = <<>>
    /\ scrolled = <<>>
    /\ nextRun = 0

\* A handler that returns without touching the state.
NoOp(op, value) ==
    /\ lastOp' = [op |-> op, value |-> value]
    /\ calls' = <<>>
    /\ scrolls' = <<>> /\ scrolled' = <<>>
    /\ UNCHANGED <<anchors, seasons, onSeasonSelect, selectedSeason,
                   currentSeasonIndex, view>>

\* MoveTo with the label taken from the index instead of the season number.
MoveTo_LabelFromIndex(op, index) ==
    LET number == DisplayNumber(seasons, index) IN
    /\ currentSeasonIndex' = index
    /\ selectedSeason' = ToString(index)
    /\ scrollToSeason(ToString(number))
    /\ calls' = Invoke(NumberValue(number))
    /\ lastOp' = [op |-> op, value |-> ""]
    /\ view' = Render(seasons, index, ToString(index))
    /\ UNCHANGED <<anchors, seasons, onSeasonSelect>>

\* MoveTo with the scroll aimed at the 1-based position instead of the
\* season number.
MoveTo_ScrollByIndex(op, index) ==
    LET number == DisplayNumber(seasons, index) IN
    /\ currentSeasonIndex' = index
    /\ selectedSeason' = ToString(number)
    /\ scrollToSeason(ToString(index + 1))
    /\ calls' = Invoke(NumberValue(number))
    /\ lastOp' = [op |-> op, value |-> ""]
    /\ view' = Render(seasons, index, ToString(number))
    /\ UNCHANGED <<anchors, seasons, onSeasonSelect>>

\* The state and the log after a handler moved to position index.
MoveTo(op, index) ==
    LET number == DisplayNumber(seasons, index) IN
    /\ currentSeasonIndex' = index
    /\ selectedSeason' = ToString(number)
    /\ scrollToSeason(ToString(number))
    /\ calls' = Invoke(NumberValue(number))
    /\ lastOp' = [op |-> op, value |-> ""]
    /\ view' = Render(seasons, index, ToString(number))
    /\ UNCHANGED <<anchors, seasons, onSeasonSelect>>

\* Consecutive next() calls since mount/reset; nothing more is learnt past
\* MaxSeasons of them, so the count stops there.
CountNext == IF nextRun < 0 \/ nextRun >= MaxSeasons THEN nextRun ELSE nextRun + 1

\* moveToNextSeason with the callback invoked outside the bounds check.
moveToNextSeason_CallbackOutsideGuard ==
    /\ UNCHANGED <<cardVars, loaderVars, pageVars>>
    /\ nextRun' = CountNext
    /\ IF Len(seasons) = 0
       THEN NoOp("next", "")
       ELSE LET nextIndex == currentSeasonIndex + 1 IN
            IF nextIndex < Len(seasons)
            THEN MoveTo("next", nextIndex)
            ELSE /\ lastOp' = [op |-> "next", value |-> ""]
                 /\ calls' = Invoke(NumberValue(
                                 DisplayNumber(seasons, currentSeasonIndex)))
                 /\ scrolls' = <<>> /\ scrolled' = <<>>
                 /\ UNCHANGED <<anchors, seasons, onSeasonSelect, selectedSeason,
                                currentSeasonIndex, view>>

moveToNextSeason ==
    /\ UNCHANGED <<cardVars, loaderVars, pageVars>>
    /\ nextRun' = CountNext
    /\ IF Len(seasons) = 0
       THEN NoOp("next", "")
       ELSE LET nextIndex == currentSeasonIndex + 1 IN
            IF nextIndex < Len(seasons)
            THEN MoveTo("next", nextIndex)
            ELSE NoOp("next", "")

\* moveToPreviousSeason with prevIndex > 0 for prevIndex >= 0.
moveToPreviousSeason_StrictGuard ==
    /\ UNCHANGED <<cardVars, loaderVars, pageVars>>
    /\ nextRun' = -1
    /\ IF Len(seasons) = 0
       THEN NoOp("previous", "")
       ELSE LET prevIndex == currentSeasonIndex - 1 IN
            IF prevIndex > 0
            THEN MoveTo("previous", prevIndex)
            ELSE NoOp("previous", "")

moveToPreviousSeason ==
    /\ UNCHANGED <<cardVars, loaderVars, pageVars>>
    /\ nextRun' = -1
    /\ IF Len(seasons) = 0
       THEN NoOp("previous", "")
       ELSE LET prevIndex == currentSeasonIndex - 1 IN
            IF prevIndex >= 0
            THEN MoveTo("previous", prevIndex)
            ELSE NoOp("previous", "")

(***************************************************************************)
(* seasons.findIndex(season =>                                             *)
(*   (season.season || seasons.indexOf(season) + 1).toString() === value)  *)
(* The season objects of a parsed payload are distinct objects, so        *)
(* seasons.indexOf(season) is the position of the element being tested.    *)
(* The result is the first matching 0-based position, or -1.               *)
(***************************************************************************)
Matches(list, value) ==
    {i \in 0..(Len(list) - 1) : ToString(SeasonNumber(list[i + 1], i)) = value}

\* findIndex whose predicate compares the number, not its string, with the
\* value of the dropdown: nothing matches.
findIndex_NoToString(list, value) == -1

findIndex(list, value) ==
    IF Matches(list, value) = {}
    THEN -1
    ELSE CHOOSE i \in Matches(list, value) :
             \A j \in Matches(list, value) : i <= j

\* What the dropdown (or a caller) may hand to handleSeasonChange.
SelectValues == {""} \cup {ToString(n) : n \in 0..MaxSeasons}

\* handleSeasonChange without its if (seasonNumber) test.
handleSeasonChange_NoEmptyGuard(seasonNumber) ==
    /\ UNCHANGED <<cardVars, loaderVars, pageVars>>
    /\ nextRun' = -1
    /\ selectedSeason' = seasonNumber
    /\ lastOp' = [op |-> "select", value |-> seasonNumber]
    /\ UNCHANGED <<anchors, seasons, onSeasonSelect>>
    /\ LET seasonIndex == findIndex(seasons, seasonNumber) IN
       /\ currentSeasonIndex' =
              IF seasonIndex # -1 THEN seasonIndex ELSE currentSeasonIndex
       /\ scrollToSeason(seasonNumber)
       /\ calls' = Invoke(StringValue(seasonNumber))
    /\ view' = Render(seasons', currentSeasonIndex', selectedSeason')

\* handleSeasonChange that falls back to the first season when no season
\* matches the value.
handleSeasonChange_ResetWhenNotFound(seasonNumber) ==
    /\ UNCHANGED <<cardVars, loaderVars, pageVars>>
    /\ nextRun' = -1
    /\ selectedSeason' = seasonNumber
    /\ lastOp' = [op |-> "select", value |-> seasonNumber]
    /\ UNCHANGED <<anchors, seasons, onSeasonSelect>>
    /\ IF seasonNumber # ""
       THEN LET seasonIndex == findIndex(seasons, seasonNumber) IN
            /\ currentSeasonIndex' =
                   IF seasonIndex # -1 THEN seasonIndex ELSE 0
            /\ scrollToSeason(seasonNumber)
            /\ calls' = Invoke(StringValue(seasonNumber))
       ELSE /\ UNCHANGED currentSeasonIndex
            /\ scrolls' = <<>> /\ scrolled' = <<>>
            /\ calls' = <<>>
    /\ view' = Render(seasons', currentSeasonIndex', selectedSeason')

\* handleSeasonChange(event), with seasonNumber = event.target.value.
handleSeasonChange(seasonNumber) ==
    /\ UNCHANGED <<cardVars, loaderVars, pageVars>>
    /\ nextRun' = -1
    /\ selectedSeason' = seasonNumber
    /\ lastOp' = [op |-> "select", value |-> seasonNumber]
    /\ UNCHANGED <<anchors, seasons, onSeasonSelect>>
    /\ IF seasonNumber # ""
       THEN LET seasonIndex == findIndex(seasons, seasonNumber) IN
            /\ currentSeasonIndex' =
                   IF seasonIndex # -1 THEN seasonIndex ELSE currentSeasonIndex
            /\ scrollToSeason(seasonNumber)
            /\ calls' = Invoke(StringValue(seasonNumber))
       ELSE /\ UNCHANGED currentSeasonIndex
            /\ scrolls' = <<>> /\ scrolled' = <<>>
            /\ calls' = <<>>
    /\ view' = Render(seasons', currentSeasonIndex', selectedSeason')

(***************************************************************************)
(* The seasons prop is replaced by another array and the effect on        *)
(* [seasons] runs.  React flushes the effect before it runs any later     *)
(* event handler, so no handler sees the state in between.                *)
(***************************************************************************)
\* The effect on [seasons] without its setCurrentSeasonIndex(0).
resetOnSeasonsChange_LabelOnly(newSeasons) ==
    /\ UNCHANGED <<cardVars, loaderVars, pageVars>>
    /\ seasons' = newSeasons
    /\ selectedSeason' = ""
    /\ UNCHANGED currentSeasonIndex
    /\ view' = Render(newSeasons, currentSeasonIndex, "")
    /\ lastOp' = [op |-> "reset", value |-> ""]
    /\ calls' = <<>>
    /\ scrolls' = <<>> /\ scrolled' = <<>>
    /\ nextRun' = 0
    /\ UNCHANGED <<anchors, onSeasonSelect>>

\* The effect on [seasons] with the index reset only.
resetOnSeasonsChange_IndexOnly(newSeasons) ==
    /\ UNCHANGED <<cardVars, loaderVars, pageVars>>
    /\ seasons' = newSeasons
    /\ UNCHANGED selectedSeason
    /\ currentSeasonIndex' = 0
    /\ view' = Render(newSeasons, 0, selectedSeason)
    /\ lastOp' = [op |-> "reset", value |-> ""]
    /\ calls' = <<>>
    /\ scrolls' = <<>> /\ scrolled' = <<>>
    /\ nextRun' = 0
    /\ UNCHANGED <<anchors, onSeasonSelect>>

\* The effect on [seasons]: the label and the index are reset.
resetOnSeasonsChange(newSeasons) ==
    /\ UNCHANGED <<cardVars, loaderVars, pageVars>>
    /\ seasons' = newSeasons
    /\ selectedSeason' = ""
    /\ currentSeasonIndex' = 0
    /\ view' = Render(newSeasons, 0, "")
    /\ lastOp' = [op |-> "reset", value |-> ""]
    /\ calls' = <<>>
    /\ scrolls' = <<>> /\ scrolled' = <<>>
    /\ nextRun' = 0
    /\ UNCHANGED <<anchors, onSeasonSelect>>

NavNext ==
    \/ moveToNextSeason
    \/ moveToPreviousSeason
    \/ \E value \in SelectValues : handleSeasonChange(value)
    \/ \E newSeasons \in SeasonLists : resetOnSeasonsChange(newSeasons)

\* The navigator mounted with no seasons: the state the other
\* specifications leave it in.
NavIdle ==
    /\ seasons = <<>>
    /\ onSeasonSelect = FALSE
    /\ anchors = {}
    /\ selectedSeason = ""
    /\ currentSeasonIndex = 0
    /\ view = Render(<<>>, 0, "")
    /\ lastOp = [op |-> "mount", value |-> ""]
    /\ calls = <<>>
    /\ scrolls = <<>>
    /\ scrolled = <<>>
    /\ nextRun = 0

(***************************************************************************)
(* PodcastCard: the genre tags.                                            *)
(***************************************************************************)
MaxGenreIds == 3

\* The genre ids a preview may carry: known ones and unknown ones.
GenreIds == {1, 3, 9, 10, 99}

\* The genre titles of the project (the table of its README).
StandardGenres ==
    <<[id |-> 1, title |-> "Personal Growth"],
      [id |-> 2, title |-> "Investigative Journalism"],
      [id |-> 3, title |-> "History"],
      [id |-> 4, title |-> "Comedy"],
      [id |-> 5, title |-> "Entertainment"],
      [id |-> 6, title |-> "Business"],
      [id |-> 7, title |-> "Fiction"],
      [id |-> 8, title |-> "News"],
      [id |-> 9, title |-> "Kids and Family"]>>

\* The lookup tables a card is given: the standard one, none, and one that
\* is out of order and names an id twice.
GenreTables ==
    {StandardGenres,
     <<>>,
     <<[id |-> 3, title |-> "History"], [id |-> 99, title |-> "Other"],
       [id |-> 1, title |-> "Personal Growth"], [id |-> 3, title |-> "Comedy"]>>}

GenreIdLists == UNION {[1..n -> GenreIds] : n \in 0..MaxGenreIds}

\* genres.find((genre) => genre.id === id): the first entry with that id,
\* as <<entry>>, or <<>> for undefined.
find(table, id) ==
    LET hits == {i \in 1..Len(table) : table[i].id = id} IN
    IF hits = {}
    THEN <<>>
    ELSE <<table[CHOOSE i \in hits : \A j \in hits : i <= j]>>

\* genreTag with a placeholder that leaves the id out.
genreTag_NoId(table, id) ==
    LET match == find(table, id) IN
    IF match # <<>> THEN match[1].title ELSE "Unknown"

\* match ? match.title : `Unknown (${id})`
genreTag(table, id) ==
    LET match == find(table, id) IN
    IF match # <<>>
    THEN match[1].title
    ELSE "Unknown (" \o ToString(id) \o ")"

\* podcast.genres.map((id) => ...)
genreSpansOf(ids, table) == [k \in 1..Len(ids) |-> genreTag(table, ids[k])]

\* The card after its first render.
CardInit ==
    /\ podcastGenres \in GenreIdLists
    /\ genres \in GenreTables
    /\ isModalOpen = FALSE
    /\ genreSpans = genreSpansOf(podcastGenres, genres)

CardIdle ==
    /\ podcastGenres = <<>>
    /\ genres = <<>>
    /\ isModalOpen = FALSE
    /\ genreSpans = <<>>

\* Each handler sets the state and the card renders again.
handleCardClick ==
    /\ isModalOpen' = TRUE
    /\ genreSpans' = genreSpansOf(podcastGenres, genres)
    /\ UNCHANGED <<podcastGenres, genres>>
    /\ UNCHANGED <<navVars, loaderVars, pageVars>>

\* Modal offers onClose only while it is open.
closeModal ==
    /\ isModalOpen
    /\ isModalOpen' = FALSE
    /\ genreSpans' = genreSpansOf(podcastGenres, genres)
    /\ UNCHANGED <<podcastGenres, genres>>
    /\ UNCHANGED <<navVars, loaderVars, pageVars>>

CardNext ==
    \/ handleCardClick
    \/ closeModal

(***************************************************************************)
(* The page rendered for a loaded show: the season sections of            *)
(* Modalseries and the dropdown options of SeasonScroller.                 *)
(***************************************************************************)
MaxPageSeasons == 2

MaxEpisodes == 1

\* Season and episode numbers of the rendered payloads: 0 (a number that is
\* falsy) and a number that is not the position.
PageNumbers == {0, 2}

SeriesIds == {7, 42}

Episode ==
    {[title |-> "E"]} \cup {[episode |-> n, title |-> "E"] : n \in PageNumbers}

EpisodeLists == UNION {[1..n -> Episode] : n \in 0..MaxEpisodes}

PageSeason ==
    {[title |-> "T", episodes |-> e] : e \in EpisodeLists}
    \cup {[season |-> n, title |-> "T", episodes |-> e] :
              n \in PageNumbers, e \in EpisodeLists}

PageSeasonLists == UNION {[1..n -> PageSeason] : n \in 0..MaxPageSeasons}

\* {object.field} as a JSX child: a number shows its digits (0 too),
\* undefined shows nothing.
JsxChild(object, field) ==
    IF field \in DOMAIN object THEN ToString(object[field]) ELSE ""

\* ${object.field} in a template literal: undefined shows "undefined".
TemplateValue(object, field) ==
    IF field \in DOMAIN object THEN ToString(object[field]) ELSE "undefined"

\* object.field || fallback
OrElse(object, field, fallback) ==
    IF field \in DOMAIN object /\ object[field] # 0
    THEN object[field]
    ELSE fallback

\* One episode-item of a season section.
EpisodeItem(id, season, episode, episodeIndex) ==
    [key |-> "episode-" \o ToString(id) \o "-"
                 \o TemplateValue(season, "season") \o "-"
                 \o ToString(OrElse(episode, "episode", episodeIndex)),
     number |-> JsxChild(episode, "episode")]

\* One season-section of the seasons container.
SeasonSection(id, season, seasonIndex) ==
    [key |-> "season-" \o ToString(id) \o "-"
                 \o ToString(OrElse(season, "season", seasonIndex)),
     heading |-> JsxChild(season, "season"),
     episodes |-> [j \in 1..Len(season.episodes) |->
                      EpisodeItem(id, season, season.episodes[j], j - 1)]]

\* One option of the dropdown.
SeasonOption(list, index) ==
    [key |-> ToString(OptionKey(list, index)),
     value |-> OptionValue(list, index)]

\* A show is loaded and nothing of it is rendered yet.
PageInit ==
    /\ seriesId \in SeriesIds
    /\ seriesData \in {<<[id |-> seriesId, seasons |-> l]>> :
                          l \in PageSeasonLists}
    /\ loading = FALSE
    /\ error = <<>>
    /\ inFlight = {}
    /\ issued = 0
    /\ lastEvent = [kind |-> "mount", id |-> 0, text |-> ""]
    /\ uncaught = FALSE
    /\ latestOutcome = "none"
    /\ sections = <<>>
    /\ options = <<>>

PageIdle ==
    /\ sections = <<>>
    /\ options = <<>>

\* Modalseries returns the series details: seriesData.seasons.map(...).
\* sections is <<>> before this render and <<the sections>> after it.
renderModalseries ==
    /\ ~loading /\ error = <<>> /\ seriesData # <<>>
    /\ sections' =
           <<[i \in 1..Len(seriesData[1].seasons) |->
                 SeasonSection(seriesId, seriesData[1].seasons[i], i - 1)]>>
    /\ UNCHANGED options
    /\ UNCHANGED <<navVars, cardVars, loaderVars>>

\* SeasonScroller, given seriesData.seasons, returns its options:
\* seasons.map(...).  Modalseries mounts it only for a non-empty array.
renderSeasonScroller ==
    /\ ~loading /\ error = <<>> /\ seriesData # <<>>
    /\ Len(seriesData[1].seasons) > 0
    /\ options' =
           <<[i \in 1..Len(seriesData[1].seasons) |->
                 SeasonOption(seriesData[1].seasons, i - 1)]>>
    /\ UNCHANGED sections
    /\ UNCHANGED <<navVars, cardVars, loaderVars>>

PageNext ==
    \/ renderModalseries
    \/ renderSeasonScroller

(***************************************************************************)
(* Modalseries: the detail loader.                                         *)
(***************************************************************************)
MaxFetches == 3

\* An identifier that is falsy (absent, empty).
NoSeriesId == 0

\* Status codes of responses whose ok flag is false.
ErrorStatuses == {404, 500}

\* Messages of the errors fetch() or response.json() reject with.
RejectionMessages == {"Failed to fetch", "Unexpected end of JSON input"}

\* The payload the API serves for an identifier.
ShowOf(id) == [id |-> id, seasons |-> <<>>]

\* new Error(`HTTP error! status: ${response.status}`).message
HttpErrorMessage(status) == "HTTP error! status: " \o ToString(status)

\* `Failed to load data for series ${id}: ${err.message}`
FailureMessage(id, message) ==
    "Failed to load data for series " \o ToString(id) \o ": " \o message

\* The component after it is mounted with no identifier: the initial values
\* of its state, and an effect that found nothing to fetch.
LoaderInit ==
    /\ seriesId = NoSeriesId
    /\ seriesData = <<>>
    /\ loading = FALSE
    /\ error = <<>>
    /\ inFlight = {}
    /\ issued = 0
    /\ lastEvent = [kind |-> "mount", id |-> 0, text |-> ""]
    /\ uncaught = FALSE
    /\ latestOutcome = "none"

LoaderIdle == LoaderInit

\* fetchSeriesData without its setError(null).
StartFetch_KeepError(id) ==
    IF id = NoSeriesId
    THEN UNCHANGED <<loading, error, inFlight, issued, latestOutcome>>
    ELSE /\ loading' = TRUE
         /\ UNCHANGED error
         /\ inFlight' = inFlight \cup {[fid |-> issued + 1, id |-> id]}
         /\ issued' = issued + 1
         /\ latestOutcome' = "pending"

\* fetchSeriesData(id) up to its first await: the early return, or the two
\* state updates and the request.
StartFetch(id) ==
    IF id = NoSeriesId
    THEN UNCHANGED <<loading, error, inFlight, issued, latestOutcome>>
    ELSE /\ loading' = TRUE
         /\ error' = <<>>
         /\ inFlight' = inFlight \cup {[fid |-> issued + 1, id |-> id]}
         /\ issued' = issued + 1
         /\ latestOutcome' = "pending"

\* The prop change with an effect that empties the view for a falsy id.
changeSeriesId_ClearOnFalsy(newId) ==
    /\ newId # seriesId
    /\ newId # NoSeriesId => issued < MaxFetches
    /\ seriesId' = newId
    /\ StartFetch(newId)
    /\ lastEvent' = [kind |-> "idChange", id |-> newId, text |-> ""]
    /\ seriesData' = IF newId = NoSeriesId THEN <<>> ELSE seriesData
    /\ UNCHANGED uncaught
    /\ UNCHANGED <<navVars, cardVars, pageVars>>

\* The prop change with an effect that aborts the requests still pending.
changeSeriesId_AbortPending(newId) ==
    /\ newId # seriesId
    /\ newId # NoSeriesId
    /\ issued < MaxFetches
    /\ seriesId' = newId
    /\ loading' = TRUE
    /\ error' = <<>>
    /\ inFlight' = {[fid |-> issued + 1, id |-> newId]}
    /\ issued' = issued + 1
    /\ latestOutcome' = "pending"
    /\ lastEvent' = [kind |-> "idChange", id |-> newId, text |-> ""]
    /\ UNCHANGED <<seriesData, uncaught>>
    /\ UNCHANGED <<navVars, cardVars, pageVars>>

\* The seriesId prop changes and the effect on [seriesId] runs.
changeSeriesId(newId) ==
    /\ newId # seriesId
    /\ newId # NoSeriesId => issued < MaxFetches
    /\ seriesId' = newId
    /\ StartFetch(newId)
    /\ lastEvent' = [kind |-> "idChange", id |-> newId, text |-> ""]
    /\ UNCHANGED <<seriesData, uncaught>>
    /\ UNCHANGED <<navVars, cardVars, pageVars>>

\* The retry button of the error view: fetchSeriesData(seriesId).
retry ==
    /\ ~loading /\ error # <<>>
    /\ seriesId # NoSeriesId => issued < MaxFetches
    /\ StartFetch(seriesId)
    /\ lastEvent' = [kind |-> "retry", id |-> seriesId, text |-> ""]
    /\ UNCHANGED <<seriesId, seriesData, uncaught>>
    /\ UNCHANGED <<navVars, cardVars, pageVars>>

\* The response is ok in a loader without the finally block.
responseOk_NoFinally(f) ==
    /\ f \in inFlight
    /\ inFlight' = inFlight \ {f}
    /\ seriesData' = <<ShowOf(f.id)>>
    /\ UNCHANGED loading
    /\ lastEvent' = [kind |-> "loaded", id |-> f.id, text |-> ""]
    /\ latestOutcome' = IF f.fid = issued THEN "ok" ELSE latestOutcome
    /\ UNCHANGED <<seriesId, error, issued, uncaught>>
    /\ UNCHANGED <<navVars, cardVars, pageVars>>

\* The response is ok and its JSON is read: setSeriesData(data), then the
\* finally block.
responseOk(f) ==
    /\ f \in inFlight
    /\ inFlight' = inFlight \ {f}
    /\ seriesData' = <<ShowOf(f.id)>>
    /\ loading' = FALSE
    /\ lastEvent' = [kind |-> "loaded", id |-> f.id, text |-> ""]
    /\ latestOutcome' = IF f.fid = issued THEN "ok" ELSE latestOutcome
    /\ UNCHANGED <<seriesId, error, issued, uncaught>>
    /\ UNCHANGED <<navVars, cardVars, pageVars>>

\* The catch block with a message that leaves the identifier out.
Catch_NoId(f, message) ==
    /\ inFlight' = inFlight \ {f}
    /\ error' = <<"Failed to load data: " \o message>>
    /\ loading' = FALSE
    /\ lastEvent' = [kind |-> "failed", id |-> f.id, text |-> message]
    /\ latestOutcome' = IF f.fid = issued THEN "failed" ELSE latestOutcome
    /\ UNCHANGED <<seriesId, seriesData, issued, uncaught>>
    /\ UNCHANGED <<navVars, cardVars, pageVars>>

\* The catch block of a loader that also drops the data it holds.
Catch_ClearData(f, message) ==
    /\ inFlight' = inFlight \ {f}
    /\ error' = <<FailureMessage(f.id, message)>>
    /\ loading' = FALSE
    /\ seriesData' = <<>>
    /\ lastEvent' = [kind |-> "failed", id |-> f.id, text |-> message]
    /\ latestOutcome' = IF f.fid = issued THEN "failed" ELSE latestOutcome
    /\ UNCHANGED <<seriesId, issued, uncaught>>
    /\ UNCHANGED <<navVars, cardVars, pageVars>>

\* The catch block and the finally block, for the error err thrown in the
\* try block of the call f.
Catch(f, message) ==
    /\ inFlight' = inFlight \ {f}
    /\ error' = <<FailureMessage(f.id, message)>>
    /\ loading' = FALSE
    /\ lastEvent' = [kind |-> "failed", id |-> f.id, text |-> message]
    /\ latestOutcome' = IF f.fid = issued THEN "failed" ELSE latestOutcome
    /\ UNCHANGED <<seriesId, seriesData, issued, uncaught>>
    /\ UNCHANGED <<navVars, cardVars, pageVars>>

\* The response is not ok: the try block throws.
responseNotOk(f, status) ==
    /\ f \in inFlight
    /\ Catch(f, HttpErrorMessage(status))

\* fetch() or response.json() rejects.
fetchRejected(f, message) ==
    /\ f \in inFlight
    /\ Catch(f, message)

LoaderNext ==
    \/ \E newId \in SeriesIds \cup {NoSeriesId} : changeSeriesId(newId)
    \/ retry
    \/ \E f \in inFlight : responseOk(f)
    \/ \E f \in inFlight : \E status \in ErrorStatuses : responseNotOk(f, status)
    \/ \E f \in inFlight : \E message \in RejectionMessages :
           fetchRejected(f, message)

(***************************************************************************)
(* Specifications, one per component; the other components stay idle.     *)
(***************************************************************************)
Init == NavInit /\ CardIdle /\ LoaderIdle /\ PageIdle

Next == NavNext

Spec == Init /\ [][Next]_vars

CardSpecInit == CardInit /\ NavIdle /\ LoaderIdle /\ PageIdle

CardSpec == CardSpecInit /\ [][CardNext]_vars

PageSpecInit == PageInit /\ NavIdle /\ CardIdle

PageSpec == PageSpecInit /\ [][PageNext]_vars

\* The values the rendered <select> can deliver: the placeholder option and
\* one option per season.
DropdownValues(list) ==
    {""} \cup {OptionValue(list, i) : i \in 0..(Len(list) - 1)}

\* The navigator driven through its rendered controls only: the dropdown
\* hands handleSeasonChange the value of one of its options.
DropdownNext ==
    \/ moveToNextSeason
    \/ moveToPreviousSeason
    \/ \E value \in DropdownValues(seasons) : handleSeasonChange(value)
    \/ \E newSeasons \in SeasonLists : resetOnSeasonsChange(newSeasons)

DropdownSpec == Init /\ [][DropdownNext]_vars

LoaderSpecInit == LoaderInit /\ NavIdle /\ CardIdle /\ PageIdle

LoaderSpec == LoaderSpecInit /\ [][LoaderNext]_vars


(***************************************************************************)
(* Season navigator: properties.                                           *)
(***************************************************************************)
Min(a, b) == IF a < b THEN a ELSE b

\* Whether text holds part somewhere in it.
Contains(text, part) ==
    \E i \in 1..(Len(text) - Len(part) + 1) :
        SubSeq(text, i, i + Len(part) - 1) = part

\* C1: for a non-empty season sequence, in every reachable state the
\* rendered Previous button is disabled exactly when currentSeasonIndex is 0
\* and the rendered Next button exactly when it is Len(seasons) - 1.
C1_DisabledFlags ==
    Len(seasons) > 0 =>
        /\ view.visible
        /\ view.prevDisabled <=> (currentSeasonIndex = 0)
        /\ view.nextDisabled <=> (currentSeasonIndex = Len(seasons) - 1)

C1_Witness ==
    /\ Len(seasons) = 3
    /\ lastOp.op = "next"
    /\ currentSeasonIndex = 2
    /\ view.nextDisabled
    /\ ~view.prevDisabled

\* C2: a next() made while Next is enabled adds exactly 1 to the index, a
\* previous() made while Previous is enabled subtracts exactly 1, and with a
\* non-empty season sequence the index is always within 0..Len(seasons)-1.
C2_StepByOne ==
    /\ [](Len(seasons) > 0 =>
            currentSeasonIndex \in 0..(Len(seasons) - 1))
    /\ [][/\ (lastOp'.op = "next" /\ view.visible /\ ~view.nextDisabled)
             => currentSeasonIndex' = currentSeasonIndex + 1
          /\ (lastOp'.op = "previous" /\ view.visible /\ ~view.prevDisabled)
             => currentSeasonIndex' = currentSeasonIndex - 1]_vars

C2_Witness ==
    /\ lastOp.op = "previous"
    /\ Len(seasons) = 3
    /\ currentSeasonIndex = 1
    /\ calls # <<>>

\* C3: after selectByLabel(value) with a non-empty value that is the display
\* number (as a string) of some season, the index is the first season whose
\* display number is value, the label is value, and the callback (when one
\* was given) was invoked exactly once, with that display number.
C3_SelectValid ==
    (/\ lastOp.op = "select"
     /\ lastOp.value # ""
     /\ \E i \in 0..(Len(seasons) - 1) :
            ToString(DisplayNumber(seasons, i)) = lastOp.value)
    => /\ currentSeasonIndex \in 0..(Len(seasons) - 1)
       /\ ToString(DisplayNumber(seasons, currentSeasonIndex)) = lastOp.value
       /\ \A j \in 0..(currentSeasonIndex - 1) :
              ToString(DisplayNumber(seasons, j)) # lastOp.value
       /\ selectedSeason = lastOp.value
       /\ onSeasonSelect =>
              /\ Len(calls) = 1
              /\ calls[1].text =
                     ToString(DisplayNumber(seasons, currentSeasonIndex))

C3_Witness ==
    /\ lastOp.op = "select"
    /\ lastOp.value = "3"
    /\ Len(seasons) = 3
    /\ currentSeasonIndex = 1
    /\ selectedSeason = "3"
    /\ Len(calls) = 1

\* C4: selectByLabel("") sets the label to "" and nothing else: the index
\* is as before, no scroll is requested and the callback is not invoked.
C4_SelectEmpty ==
    [][(lastOp'.op = "select" /\ lastOp'.value = "")
       => /\ selectedSeason' = ""
          /\ currentSeasonIndex' = currentSeasonIndex
          /\ seasons' = seasons
          /\ scrolls' = <<>>
          /\ calls' = <<>>]_vars

C4_Witness ==
    /\ lastOp.op = "select"
    /\ lastOp.value = ""
    /\ currentSeasonIndex = 2
    /\ selectedSeason = ""
    /\ onSeasonSelect

\* A handler run that navigates: a next or previous that moved the index, or
\* a selectByLabel with a non-empty value.
C5_Successful ==
    \/ lastOp'.op \in {"next", "previous"}
       /\ currentSeasonIndex' # currentSeasonIndex
    \/ lastOp'.op = "select" /\ lastOp'.value # ""

\* C5: a handler invokes the callback (when one was given) exactly once if
\* it is a successful navigation (a next or previous that moved the index, a
\* selectByLabel with a non-empty value) and not at all if it is a no-op (a
\* next or previous that left the index alone, selectByLabel(""), a reset).
C5_CallbackOncePerNavigation ==
    [][Len(calls') =
         IF onSeasonSelect /\ C5_Successful THEN 1 ELSE 0]_vars

C5_Witness ==
    /\ onSeasonSelect
    /\ lastOp.op = "next"
    /\ Len(seasons) = 2
    /\ currentSeasonIndex = 1
    /\ nextRun = 2
    /\ calls = <<>>

\* C6: after the seasons sequence is replaced the index is 0 and the label
\* is "", whatever they were before and whatever the new sequence holds.
C6_ResetOnSeasonsChange ==
    [][(lastOp'.op = "reset" \/ seasons' # seasons)
       => currentSeasonIndex' = 0 /\ selectedSeason' = ""]_vars

C6_Witness ==
    /\ lastOp.op = "reset"
    /\ Len(seasons) = 1
    /\ currentSeasonIndex = 0
    /\ selectedSeason = ""

\* Three seasons numbered 1, 2, 3.
C7_Scenario ==
    <<[season |-> 1, title |-> "T"], [season |-> 2, title |-> "T"],
      [season |-> 3, title |-> "T"]>>

\* C7: k >= 1 next() calls in a row from the reset state on n >= 1 seasons
\* leave the index at min(k, n-1) and, once the index moved, the label equal
\* to the string of the display number of the season at the index; with
\* seasons numbered 1, 2, 3 two calls give index 2, label "3", Next disabled
\* and Previous enabled.
C7_ConsecutiveNext ==
    /\ (nextRun >= 1 /\ Len(seasons) >= 1) =>
           /\ currentSeasonIndex = Min(nextRun, Len(seasons) - 1)
           /\ currentSeasonIndex > 0 =>
                  selectedSeason =
                      ToString(DisplayNumber(seasons, currentSeasonIndex))
    /\ (nextRun = 2 /\ seasons = C7_Scenario) =>
           /\ currentSeasonIndex = 2
           /\ selectedSeason = "3"
           /\ view.nextDisabled
           /\ ~view.prevDisabled

C7_Witness ==
    /\ nextRun = 2
    /\ seasons = C7_Scenario
    /\ selectedSeason = "3"

(***************************************************************************)
(* Display numbers, genre tags and the detail loader: properties.          *)
(***************************************************************************)
\* The number the rule of C8 gives an object at 0-based position index: its
\* explicit number if it has one, else the 1-based position.
C8_Expected(object, field, index) ==
    IF field \in DOMAIN object THEN object[field] ELSE index + 1

\* C8: the display number of the season at position i, as the dropdown
\* options carry it, is the season's explicit number if present and i+1
\* otherwise, and the number shown for the episode at position j is the
\* episode's explicit number if present and j+1 otherwise.
C8_DisplayNumberRule ==
    LET list == seriesData[1].seasons IN
    /\ options # <<>> =>
           \A i \in 1..Len(list) :
               options[1][i].value =
                   ToString(C8_Expected(list[i], "season", i - 1))
    /\ sections # <<>> =>
           \A i \in 1..Len(list) :
               \A j \in 1..Len(list[i].episodes) :
                   sections[1][i].episodes[j].number =
                       ToString(C8_Expected(list[i].episodes[j],
                                            "episode", j - 1))

\* C9: the genre tags have the length and order of the genre ids; tag k is
\* the title of the first table entry whose id is the k-th id, or
\* "Unknown (<id>)" when the table has none; ids 1, 3, 99 with the standard
\* table give "Personal Growth", "History", "Unknown (99)".  The tags are a
\* function of the ids and the table, so equal inputs give equal tags.
C9_GenreTags ==
    /\ Len(genreSpans) = Len(podcastGenres)
    /\ \A k \in 1..Len(podcastGenres) :
           LET id == podcastGenres[k]
               hits == {i \in 1..Len(genres) : genres[i].id = id}
           IN  IF hits = {}
               THEN genreSpans[k] = "Unknown (" \o ToString(id) \o ")"
               ELSE \E i \in hits :
                        /\ \A j \in hits : i <= j
                        /\ genreSpans[k] = genres[i].title
    /\ (podcastGenres = <<1, 3, 99>> /\ genres = StandardGenres) =>
           genreSpans = <<"Personal Growth", "History", "Unknown (99)">>

C9_Witness ==
    /\ podcastGenres = <<1, 3, 99>>
    /\ genres = StandardGenres
    /\ isModalOpen
    /\ genreSpans = <<"Personal Growth", "History", "Unknown (99)">>

ErrorMessages ==
    {HttpErrorMessage(status) : status \in ErrorStatuses} \cup RejectionMessages

\* C11: the retry action of a Failed state issues a fetch for the identifier
\* of the failed fetch whose message is displayed.
C11_RetrySameIdentifier ==
    [][lastEvent'.kind = "retry"
       => \E f \in inFlight' \ inFlight :
              \E message \in ErrorMessages :
                  error = <<FailureMessage(f.id, message)>>]_vars

\* The view Modalseries returns: the loading view, else the error view, else
\* the series details, else null.
Phase ==
    IF loading THEN "Loading"
    ELSE IF error # <<>> THEN "Failed"
    ELSE IF seriesData # <<>> THEN "Loaded"
    ELSE "Idle"

\* C12 as stated: the loader starts Idle, a change of the identifier to a
\* truthy value moves it to Loading with the error cleared, the completion of
\* a fetch moves it from Loading to Loaded or Failed, and the state changes
\* in no other way.
C12_OnlyThreeTransitions ==
    /\ Phase = "Idle"
    /\ [][/\ (lastEvent'.kind = "idChange" /\ seriesId' # NoSeriesId)
             => (Phase' = "Loading" /\ error' = <<>>)
          /\ Phase' # Phase =>
                 \/ /\ lastEvent'.kind = "idChange"
                    /\ seriesId' # NoSeriesId
                    /\ Phase' = "Loading"
                 \/ /\ lastEvent'.kind \in {"loaded", "failed"}
                    /\ Phase = "Loading"
                    /\ Phase' \in {"Loaded", "Failed"}]_vars

\* C12, amended: the loader starts Idle; a change of the identifier to a
\* truthy value moves it to Loading with the error cleared; the completion
\* of a fetch moves it from Loading to Loaded or Failed; the only other
\* changes of state are a retry, from Failed to Loading, and the completion
\* of a fetch that was still pending when another one completed, from Loaded
\* or Failed to Loaded or Failed.
C12_Transitions ==
    /\ Phase = "Idle"
    /\ [][/\ (lastEvent'.kind = "idChange" /\ seriesId' # NoSeriesId)
             => (Phase' = "Loading" /\ error' = <<>>)
          /\ (lastEvent'.kind \in {"loaded", "failed"} /\ Phase = "Loading")
             => Phase' \in {"Loaded", "Failed"}
          /\ Phase' # Phase =>
                 \/ /\ lastEvent'.kind = "idChange"
                    /\ seriesId' # NoSeriesId
                    /\ Phase' = "Loading"
                 \/ /\ lastEvent'.kind \in {"loaded", "failed"}
                    /\ Phase = "Loading"
                    /\ Phase' \in {"Loaded", "Failed"}
                 \/ /\ lastEvent'.kind = "retry"
                    /\ Phase = "Failed"
                    /\ Phase' = "Loading"
                 \/ /\ lastEvent'.kind \in {"loaded", "failed"}
                    /\ Phase \in {"Loaded", "Failed"}
                    /\ Phase' \in {"Loaded", "Failed"}]_vars

C12_Witness ==
    /\ Phase = "Loading"
    /\ lastEvent = [kind |-> "idChange", id |-> 7, text |-> ""]
    /\ seriesData = <<ShowOf(42)>>
    /\ error = <<>>
    /\ issued = 3

\* C13: a change of the identifier to a falsy value issues no fetch and
\* leaves the data, the loading flag and the error as they were.
C13_FalsyIdentifierKeepsState ==
    [][(lastEvent'.kind = "idChange" /\ seriesId' = NoSeriesId)
       => UNCHANGED <<seriesData, loading, error, inFlight, issued>>]_vars

C13_Witness ==
    /\ lastEvent = [kind |-> "idChange", id |-> NoSeriesId, text |-> ""]
    /\ seriesId = NoSeriesId
    /\ seriesData = <<ShowOf(42)>>
    /\ inFlight = {}
    /\ ~loading

\* C14: a change of the identifier aborts no pending fetch, and a fetch that
\* resolves stores its own payload, whatever the current identifier is; so
\* the loader can come to rest on the identifier of a later fetch with the
\* data of an earlier one.
C14_StaleFetchOverwrites ==
    [][/\ lastEvent'.kind = "idChange" => inFlight \subseteq inFlight'
       /\ lastEvent'.kind = "loaded"
          => /\ seriesData' = <<ShowOf(lastEvent'.id)>>
             /\ \E f \in inFlight \ inFlight' : f.id = lastEvent'.id]_vars

C14_Witness ==
    /\ inFlight = {}
    /\ issued = 2
    /\ seriesId = 7
    /\ seriesData = <<ShowOf(42)>>
    /\ error = <<>>
    /\ ~loading

\* C15: for as long as a fetch is pending, the loading flag is true.
C15_LoadingWhilePending == inFlight # {} => loading

\* C16: an identifier change to a truthy value and a retry each issue
\* exactly one fetch, and nothing else issues one, so the number of fetches
\* issued is the number of those events.
C16_OneFetchPerEvent ==
    [][LET trigger == \/ lastEvent'.kind = "idChange" /\ seriesId' # NoSeriesId
                      \/ lastEvent'.kind = "retry"
       IN  /\ issued' = IF trigger THEN issued + 1 ELSE issued
           /\ Cardinality(inFlight' \ inFlight) = IF trigger THEN 1 ELSE 0]_vars

C18_SelectUnmatched ==
    [][(/\ lastOp'.op = "select"
        /\ lastOp'.value # ""
        /\ findIndex(seasons, lastOp'.value) = -1)
       => /\ currentSeasonIndex' = currentSeasonIndex
          /\ selectedSeason' = lastOp'.value
          /\ scrolls' = <<SeasonElementId(lastOp'.value)>>
          /\ calls' = IF onSeasonSelect
                      THEN <<StringValue(lastOp'.value)>>
                      ELSE <<>>]_vars

C18_Witness ==
    /\ lastOp = [op |-> "select", value |-> "0"]
    /\ Len(seasons) = 2
    /\ findIndex(seasons, "0") = -1
    /\ currentSeasonIndex = 1
    /\ selectedSeason = "0"
    /\ scrolls = <<SeasonElementId("0")>>
    /\ onSeasonSelect
    /\ calls = <<StringValue("0")>>

\* C19: next at the last index or with no seasons, and previous at index 0,
\* change neither the index nor the label and request no scroll; when they
\* move, the label is the string of the display number of the season at the
\* new index and the scroll is requested for that display number.
C19_BoundaryNoOp ==
    [][/\ (/\ lastOp'.op = "next"
           /\ (Len(seasons) = 0 \/ currentSeasonIndex = Len(seasons) - 1))
          => /\ UNCHANGED <<currentSeasonIndex, selectedSeason>>
             /\ scrolls' = <<>>
             /\ scrolled' = <<>>
       /\ (lastOp'.op = "previous" /\ currentSeasonIndex = 0)
          => /\ UNCHANGED <<currentSeasonIndex, selectedSeason>>
             /\ scrolls' = <<>>
             /\ scrolled' = <<>>
       /\ (/\ lastOp'.op \in {"next", "previous"}
           /\ currentSeasonIndex' # currentSeasonIndex)
          => LET text == ToString(DisplayNumber(seasons, currentSeasonIndex'))
             IN  /\ selectedSeason' = text
                 /\ scrolls' = <<SeasonElementId(text)>>]_vars

C19_Witness ==
    /\ lastOp.op = "previous"
    /\ Len(seasons) = 3
    /\ currentSeasonIndex = 0
    /\ selectedSeason = "3"
    /\ scrolls = <<>>
    /\ calls = <<>>

\* C20: when the document has no element for the requested display number,
\* nothing is scrolled and the handler still completes: the label is the
\* requested number, the index is the one navigated to, and the callback,
\* which runs after scrollToSeason, is called once when it is provided.
C20_MissingAnchor ==
    [][(scrolls' # <<>> /\ scrolls'[1] \notin anchors)
       => /\ scrolled' = <<>>
          /\ scrolls' = <<SeasonElementId(selectedSeason')>>
          /\ Len(calls') = IF onSeasonSelect THEN 1 ELSE 0
          /\ lastOp'.op = "next"
             => currentSeasonIndex' = currentSeasonIndex + 1
          /\ lastOp'.op = "previous"
             => currentSeasonIndex' = currentSeasonIndex - 1
          /\ lastOp'.op = "select"
             => currentSeasonIndex' =
                    IF findIndex(seasons, lastOp'.value) # -1
                    THEN findIndex(seasons, lastOp'.value)
                    ELSE currentSeasonIndex]_vars

C20_Witness ==
    /\ anchors # {}
    /\ lastOp.op = "next"
    /\ currentSeasonIndex = 1
    /\ selectedSeason = "2"
    /\ scrolls = <<SeasonElementId("2")>>
    /\ scrolled = <<>>
    /\ calls = <<NumberValue(2)>>

(***************************************************************************)
(* Detail loader: what a completion stores.                                *)
(***************************************************************************)
\* C21: a successful completion replaces the stored data with the fetched
\* payload and sets loading false; a failed completion, whether a non-ok
\* status or a rejection, sets the error and sets loading false, leaves the
\* stored data unchanged and shows the error view.
C21_CompletionEffects ==
    [][/\ lastEvent'.kind = "loaded"
          => /\ seriesData' = <<ShowOf(lastEvent'.id)>>
             /\ loading' = FALSE
       /\ lastEvent'.kind = "failed"
          => /\ lastEvent'.text \in ErrorMessages
             /\ error' = <<FailureMessage(lastEvent'.id, lastEvent'.text)>>
             /\ loading' = FALSE
             /\ seriesData' = seriesData
             /\ Phase' = "Failed"]_vars

C21_Witness ==
    /\ lastEvent = [kind |-> "failed", id |-> 7,
                    text |-> HttpErrorMessage(404)]
    /\ seriesData = <<ShowOf(42)>>
    /\ error = <<FailureMessage(7, HttpErrorMessage(404))>>
    /\ ~loading

(***************************************************************************)
(* The rendered page: list keys.                                           *)
(***************************************************************************)
C22_KeyNumber(object, field, index) ==
    IF field \in DOMAIN object THEN object[field] ELSE index + 1

\* C22: the key of the season at 0-based position i, in the season sections
\* and in the dropdown options, is built from the season's number if present
\* and from i+1 otherwise, and the key of the episode at position j from the
\* episode's number if present and from j+1 otherwise.
C22_ListKeys ==
    LET list == seriesData[1].seasons IN
    /\ sections # <<>> =>
           \A i \in 1..Len(list) :
               /\ sections[1][i].key =
                      "season-" \o ToString(seriesId) \o "-"
                          \o ToString(C22_KeyNumber(list[i], "season", i - 1))
               /\ \A j \in 1..Len(list[i].episodes) :
                      sections[1][i].episodes[j].key =
                          "episode-" \o ToString(seriesId) \o "-"
                              \o TemplateValue(list[i], "season") \o "-"
                              \o ToString(C22_KeyNumber(list[i].episodes[j],
                                                        "episode", j - 1))
    /\ options # <<>> =>
           \A i \in 1..Len(list) :
               options[1][i].key =
                   ToString(C22_KeyNumber(list[i], "season", i - 1))

(***************************************************************************)
(* Season navigator: the label and the dropdown.                           *)
(***************************************************************************)
\* C23: when the selection handler only receives "" or the value of one of
\* the dropdown options, the label is always empty or the string of the
\* display number of the season at the current index.
C23_LabelMatchesIndex ==
    \/ selectedSeason = ""
    \/ /\ currentSeasonIndex \in 0..(Len(seasons) - 1)
       /\ selectedSeason = ToString(DisplayNumber(seasons, currentSeasonIndex))

C23_Witness ==
    /\ lastOp.op = "select"
    /\ Len(seasons) = 3
    /\ ~HasSeasonNumber(seasons[2])
    /\ HasSeasonNumber(seasons[1]) /\ seasons[1].season = 2
    /\ selectedSeason = "2"
    /\ currentSeasonIndex = 0

\* C24: choosing the dropdown option generated for position i, that is
\* selecting the string of the display number of the season at i, sets the
\* index to i.
C24_OptionSelectsItsPosition ==
    (lastOp.op = "select" /\ lastOp.value # "")
    => \A i \in 0..(Len(seasons) - 1) :
           OptionValue(seasons, i) = lastOp.value => currentSeasonIndex = i

(***************************************************************************)
(* Detail loader: the loader at rest.                                      *)
(***************************************************************************)
\* C25: whenever no fetch is in flight the loading flag is false.
C25_AtRestNotLoading == inFlight = {} => ~loading

C25_Witness ==
    /\ inFlight = {}
    /\ issued = MaxFetches
    /\ lastEvent.kind = "loaded"
    /\ lastEvent.id # seriesId
    /\ ~loading

\* C26: whenever no fetch is in flight and the error is non-null, the most
\* recently started fetch is one that failed.
C26_ErrorIsOfLatestFetch ==
    (inFlight = {} /\ error # <<>>) => latestOutcome = "failed"

====
